---- MODULE Spec2Model ----
(***************************************************************************)
(* Pronunciation Checker (src/app.py): text normalisation / tokenisation,  *)
(* difflib-based word alignment and scoring, and the Streamlit session     *)
(* lifecycle of the stored result.                                         *)
(*                                                                         *)
(* Texts and tokens are sequences of characters, each character being its  *)
(* Unicode code point, so that the regular expressions, the join and the   *)
(* split are computed character by character.  Positions i, j, p, q are    *)
(* Python positions (0-based, slices half open); the k-th character of s   *)
(* is s[k+1].                                                              *)
(***************************************************************************)
EXTENDS Integers, Sequences, FiniteSets, TLC

VARIABLES
    \* tokenizer runs
    tpc, text, tokens, retokens,
    \* scoring runs
    pc, ref_text, hyp_text, result,
    \* Streamlit session
    last, ref_key, audio_key, new_session, ref_widget, audio_widget, score_btn,
    run, queued, locals, items, tts_cache, outcome, checked

tokVars   == <<tpc, text, tokens, retokens>>
scoreVars == <<pc, ref_text, hyp_text, result>>
uiVars    == <<last, ref_key, audio_key, new_session, ref_widget, audio_widget,
               score_btn, run, queued, locals, items, tts_cache, outcome, checked>>
vars      == <<tokVars, scoreVars, uiVars>>

----------------------------------------------------------------------------
(* Bounds of the model *)

MaxFrags    == 4   \* fragments concatenated into a tokenizer input
MaxRefWords == 3   \* fragments in a reference text
MaxHypWords == 4   \* fragments in a hypothesis text
MaxKey      == 3   \* new-session resets followed in one behaviour

----------------------------------------------------------------------------
(* Characters.  A character is its Unicode code point, a number in 0 .. 1114111, so
   that the classes of the regular expressions and of the str methods are unions
   of intervals of code points and cover every character a Python string can
   hold.  Text written in the model goes through Text, which maps printable
   ASCII characters, tab and line feed to their code points. *)

Range(s) == { s[i] : i \in DOMAIN s }

\* The printable ASCII characters 32 .. 95 and 97 .. 126, in the order of their code points
AsciiFrom32 ==
    << " ", "!", "\"", "#", "$", "%", "&", "'", "(", ")", "*", "+", ",", "-", ".", "/", "0", "1",
      "2", "3", "4", "5", "6", "7", "8", "9", ":", ";", "<", "=", ">", "?", "@", "A", "B", "C",
      "D", "E", "F", "G", "H", "I", "J", "K", "L", "M", "N", "O", "P", "Q", "R", "S", "T", "U",
      "V", "W", "X", "Y", "Z", "[", "\\", "]", "^", "_" >>
AsciiFrom97 ==
    << "a", "b", "c", "d", "e", "f", "g", "h", "i", "j", "k", "l", "m", "n", "o", "p", "q", "r",
      "s", "t", "u", "v", "w", "x", "y", "z", "{", "|", "}", "~" >>

\* The code point of an ASCII character
Ord(c) ==
    IF c = "\t" THEN 9
    ELSE IF c = "\n" THEN 10
    ELSE IF \E n \in DOMAIN AsciiFrom32 : AsciiFrom32[n] = c
         THEN 31 + (CHOOSE n \in DOMAIN AsciiFrom32 : AsciiFrom32[n] = c)
    ELSE 96 + (CHOOSE n \in DOMAIN AsciiFrom97 : AsciiFrom97[n] = c)

\* The text with the characters cs
Text(cs) == [ k \in DOMAIN cs |-> Ord(cs[k]) ]

\* The code points of the intervals first .. last, written first, last, first, last, ...
Intervals(t) == UNION { t[2 * k - 1]..t[2 * k] : k \in 1..(Len(t) \div 2) }

\* str.isspace(): what str.split() separates on and str.strip() removes
Whitespace ==
    Intervals(<< 9,13, 28,32, 133,133, 160,160, 5760,5760, 8192,8202, 8232,8233, 8239,8239,
                 8287,8287, 12288,12288 >>)

\* \d: the decimal digits of every script
Digits ==
    Intervals(<< 48,57, 1632,1641, 1776,1785, 1984,1993, 2406,2415, 2534,2543, 2662,2671,
                 2790,2799, 2918,2927, 3046,3055, 3174,3183, 3302,3311, 3430,3439, 3558,3567,
                 3664,3673, 3792,3801, 3872,3881, 4160,4169, 4240,4249, 6112,6121, 6160,6169,
                 6470,6479, 6608,6617, 6784,6793, 6800,6809, 6992,7001, 7088,7097, 7232,7241,
                 7248,7257, 42528,42537, 43216,43225, 43264,43273, 43472,43481, 43504,43513,
                 43600,43609, 44016,44025, 65296,65305, 66720,66729, 68912,68921, 69734,69743,
                 69872,69881, 69942,69951, 70096,70105, 70384,70393, 70736,70745, 70864,70873,
                 71248,71257, 71360,71369, 71472,71481, 71904,71913, 72016,72025, 72784,72793,
                 73040,73049, 73120,73129, 92768,92777, 92864,92873, 93008,93017, 120782,120831,
                 123200,123209, 123632,123641, 125264,125273, 130032,130041 >>)

\* \w: the letters and numerics of every script, and "_"
WordChars ==
    Intervals(<< 48,57, 65,90, 95,95, 97,122, 170,170, 178,179, 181,181, 185,186, 188,190, 192,214,
                 216,246, 248,705, 710,721, 736,740, 748,748, 750,750, 880,884, 886,887, 890,893,
                 895,895, 902,902, 904,906, 908,908, 910,929, 931,1013, 1015,1153, 1162,1327,
                 1329,1366, 1369,1369, 1376,1416, 1488,1514, 1519,1522, 1568,1610, 1632,1641,
                 1646,1647, 1649,1747, 1749,1749, 1765,1766, 1774,1788, 1791,1791, 1808,1808,
                 1810,1839, 1869,1957, 1969,1969, 1984,2026, 2036,2037, 2042,2042, 2048,2069,
                 2074,2074, 2084,2084, 2088,2088, 2112,2136, 2144,2154, 2160,2183, 2185,2190,
                 2208,2249, 2308,2361, 2365,2365, 2384,2384, 2392,2401, 2406,2415, 2417,2432,
                 2437,2444, 2447,2448, 2451,2472, 2474,2480, 2482,2482, 2486,2489, 2493,2493,
                 2510,2510, 2524,2525, 2527,2529, 2534,2545, 2548,2553, 2556,2556, 2565,2570,
                 2575,2576, 2579,2600, 2602,2608, 2610,2611, 2613,2614, 2616,2617, 2649,2652,
                 2654,2654, 2662,2671, 2674,2676, 2693,2701, 2703,2705, 2707,2728, 2730,2736,
                 2738,2739, 2741,2745, 2749,2749, 2768,2768, 2784,2785, 2790,2799, 2809,2809,
                 2821,2828, 2831,2832, 2835,2856, 2858,2864, 2866,2867, 2869,2873, 2877,2877,
                 2908,2909, 2911,2913, 2918,2927, 2929,2935, 2947,2947, 2949,2954, 2958,2960,
                 2962,2965, 2969,2970, 2972,2972, 2974,2975, 2979,2980, 2984,2986, 2990,3001,
                 3024,3024, 3046,3058, 3077,3084, 3086,3088, 3090,3112, 3114,3129, 3133,3133,
                 3160,3162, 3165,3165, 3168,3169, 3174,3183, 3192,3198, 3200,3200, 3205,3212,
                 3214,3216, 3218,3240, 3242,3251, 3253,3257, 3261,3261, 3293,3294, 3296,3297,
                 3302,3311, 3313,3314, 3332,3340, 3342,3344, 3346,3386, 3389,3389, 3406,3406,
                 3412,3414, 3416,3425, 3430,3448, 3450,3455, 3461,3478, 3482,3505, 3507,3515,
                 3517,3517, 3520,3526, 3558,3567, 3585,3632, 3634,3635, 3648,3654, 3664,3673,
                 3713,3714, 3716,3716, 3718,3722, 3724,3747, 3749,3749, 3751,3760, 3762,3763,
                 3773,3773, 3776,3780, 3782,3782, 3792,3801, 3804,3807, 3840,3840, 3872,3891,
                 3904,3911, 3913,3948, 3976,3980, 4096,4138, 4159,4169, 4176,4181, 4186,4189,
                 4193,4193, 4197,4198, 4206,4208, 4213,4225, 4238,4238, 4240,4249, 4256,4293,
                 4295,4295, 4301,4301, 4304,4346, 4348,4680, 4682,4685, 4688,4694, 4696,4696,
                 4698,4701, 4704,4744, 4746,4749, 4752,4784, 4786,4789, 4792,4798, 4800,4800,
                 4802,4805, 4808,4822, 4824,4880, 4882,4885, 4888,4954, 4969,4988, 4992,5007,
                 5024,5109, 5112,5117, 5121,5740, 5743,5759, 5761,5786, 5792,5866, 5870,5880,
                 5888,5905, 5919,5937, 5952,5969, 5984,5996, 5998,6000, 6016,6067, 6103,6103,
                 6108,6108, 6112,6121, 6128,6137, 6160,6169, 6176,6264, 6272,6276, 6279,6312,
                 6314,6314, 6320,6389, 6400,6430, 6470,6509, 6512,6516, 6528,6571, 6576,6601,
                 6608,6618, 6656,6678, 6688,6740, 6784,6793, 6800,6809, 6823,6823, 6917,6963,
                 6981,6988, 6992,7001, 7043,7072, 7086,7141, 7168,7203, 7232,7241, 7245,7293,
                 7296,7304, 7312,7354, 7357,7359, 7401,7404, 7406,7411, 7413,7414, 7418,7418,
                 7424,7615, 7680,7957, 7960,7965, 7968,8005, 8008,8013, 8016,8023, 8025,8025,
                 8027,8027, 8029,8029, 8031,8061, 8064,8116, 8118,8124, 8126,8126, 8130,8132,
                 8134,8140, 8144,8147, 8150,8155, 8160,8172, 8178,8180, 8182,8188, 8304,8305,
                 8308,8313, 8319,8329, 8336,8348, 8450,8450, 8455,8455, 8458,8467, 8469,8469,
                 8473,8477, 8484,8484, 8486,8486, 8488,8488, 8490,8493, 8495,8505, 8508,8511,
                 8517,8521, 8526,8526, 8528,8585, 9312,9371, 9450,9471, 10102,10131, 11264,11492,
                 11499,11502, 11506,11507, 11517,11517, 11520,11557, 11559,11559, 11565,11565,
                 11568,11623, 11631,11631, 11648,11670, 11680,11686, 11688,11694, 11696,11702,
                 11704,11710, 11712,11718, 11720,11726, 11728,11734, 11736,11742, 11823,11823,
                 12293,12295, 12321,12329, 12337,12341, 12344,12348, 12353,12438, 12445,12447,
                 12449,12538, 12540,12543, 12549,12591, 12593,12686, 12690,12693, 12704,12735,
                 12784,12799, 12832,12841, 12872,12879, 12881,12895, 12928,12937, 12977,12991,
                 13312,19903, 19968,42124, 42192,42237, 42240,42508, 42512,42539, 42560,42606,
                 42623,42653, 42656,42735, 42775,42783, 42786,42888, 42891,42954, 42960,42961,
                 42963,42963, 42965,42969, 42994,43009, 43011,43013, 43015,43018, 43020,43042,
                 43056,43061, 43072,43123, 43138,43187, 43216,43225, 43250,43255, 43259,43259,
                 43261,43262, 43264,43301, 43312,43334, 43360,43388, 43396,43442, 43471,43481,
                 43488,43492, 43494,43518, 43520,43560, 43584,43586, 43588,43595, 43600,43609,
                 43616,43638, 43642,43642, 43646,43695, 43697,43697, 43701,43702, 43705,43709,
                 43712,43712, 43714,43714, 43739,43741, 43744,43754, 43762,43764, 43777,43782,
                 43785,43790, 43793,43798, 43808,43814, 43816,43822, 43824,43866, 43868,43881,
                 43888,44002, 44016,44025, 44032,55203, 55216,55238, 55243,55291, 63744,64109,
                 64112,64217, 64256,64262, 64275,64279, 64285,64285, 64287,64296, 64298,64310,
                 64312,64316, 64318,64318, 64320,64321, 64323,64324, 64326,64433, 64467,64829,
                 64848,64911, 64914,64967, 65008,65019, 65136,65140, 65142,65276, 65296,65305,
                 65313,65338, 65345,65370, 65382,65470, 65474,65479, 65482,65487, 65490,65495,
                 65498,65500, 65536,65547, 65549,65574, 65576,65594, 65596,65597, 65599,65613,
                 65616,65629, 65664,65786, 65799,65843, 65856,65912, 65930,65931, 66176,66204,
                 66208,66256, 66273,66299, 66304,66339, 66349,66378, 66384,66421, 66432,66461,
                 66464,66499, 66504,66511, 66513,66517, 66560,66717, 66720,66729, 66736,66771,
                 66776,66811, 66816,66855, 66864,66915, 66928,66938, 66940,66954, 66956,66962,
                 66964,66965, 66967,66977, 66979,66993, 66995,67001, 67003,67004, 67072,67382,
                 67392,67413, 67424,67431, 67456,67461, 67463,67504, 67506,67514, 67584,67589,
                 67592,67592, 67594,67637, 67639,67640, 67644,67644, 67647,67669, 67672,67702,
                 67705,67742, 67751,67759, 67808,67826, 67828,67829, 67835,67867, 67872,67897,
                 67968,68023, 68028,68047, 68050,68096, 68112,68115, 68117,68119, 68121,68149,
                 68160,68168, 68192,68222, 68224,68255, 68288,68295, 68297,68324, 68331,68335,
                 68352,68405, 68416,68437, 68440,68466, 68472,68497, 68521,68527, 68608,68680,
                 68736,68786, 68800,68850, 68858,68899, 68912,68921, 69216,69246, 69248,69289,
                 69296,69297, 69376,69415, 69424,69445, 69457,69460, 69488,69505, 69552,69579,
                 69600,69622, 69635,69687, 69714,69743, 69745,69746, 69749,69749, 69763,69807,
                 69840,69864, 69872,69881, 69891,69926, 69942,69951, 69956,69956, 69959,69959,
                 69968,70002, 70006,70006, 70019,70066, 70081,70084, 70096,70106, 70108,70108,
                 70113,70132, 70144,70161, 70163,70187, 70272,70278, 70280,70280, 70282,70285,
                 70287,70301, 70303,70312, 70320,70366, 70384,70393, 70405,70412, 70415,70416,
                 70419,70440, 70442,70448, 70450,70451, 70453,70457, 70461,70461, 70480,70480,
                 70493,70497, 70656,70708, 70727,70730, 70736,70745, 70751,70753, 70784,70831,
                 70852,70853, 70855,70855, 70864,70873, 71040,71086, 71128,71131, 71168,71215,
                 71236,71236, 71248,71257, 71296,71338, 71352,71352, 71360,71369, 71424,71450,
                 71472,71483, 71488,71494, 71680,71723, 71840,71922, 71935,71942, 71945,71945,
                 71948,71955, 71957,71958, 71960,71983, 71999,71999, 72001,72001, 72016,72025,
                 72096,72103, 72106,72144, 72161,72161, 72163,72163, 72192,72192, 72203,72242,
                 72250,72250, 72272,72272, 72284,72329, 72349,72349, 72368,72440, 72704,72712,
                 72714,72750, 72768,72768, 72784,72812, 72818,72847, 72960,72966, 72968,72969,
                 72971,73008, 73030,73030, 73040,73049, 73056,73061, 73063,73064, 73066,73097,
                 73112,73112, 73120,73129, 73440,73458, 73648,73648, 73664,73684, 73728,74649,
                 74752,74862, 74880,75075, 77712,77808, 77824,78894, 82944,83526, 92160,92728,
                 92736,92766, 92768,92777, 92784,92862, 92864,92873, 92880,92909, 92928,92975,
                 92992,92995, 93008,93017, 93019,93025, 93027,93047, 93053,93071, 93760,93846,
                 93952,94026, 94032,94032, 94099,94111, 94176,94177, 94179,94179, 94208,100343,
                 100352,101589, 101632,101640, 110576,110579, 110581,110587, 110589,110590,
                 110592,110882, 110928,110930, 110948,110951, 110960,111355, 113664,113770,
                 113776,113788, 113792,113800, 113808,113817, 119520,119539, 119648,119672,
                 119808,119892, 119894,119964, 119966,119967, 119970,119970, 119973,119974,
                 119977,119980, 119982,119993, 119995,119995, 119997,120003, 120005,120069,
                 120071,120074, 120077,120084, 120086,120092, 120094,120121, 120123,120126,
                 120128,120132, 120134,120134, 120138,120144, 120146,120485, 120488,120512,
                 120514,120538, 120540,120570, 120572,120596, 120598,120628, 120630,120654,
                 120656,120686, 120688,120712, 120714,120744, 120746,120770, 120772,120779,
                 120782,120831, 122624,122654, 123136,123180, 123191,123197, 123200,123209,
                 123214,123214, 123536,123565, 123584,123627, 123632,123641, 124896,124902,
                 124904,124907, 124909,124910, 124912,124926, 124928,125124, 125127,125135,
                 125184,125251, 125259,125259, 125264,125273, 126065,126123, 126125,126127,
                 126129,126132, 126209,126253, 126255,126269, 126464,126467, 126469,126495,
                 126497,126498, 126500,126500, 126503,126503, 126505,126514, 126516,126519,
                 126521,126521, 126523,126523, 126530,126530, 126535,126535, 126537,126537,
                 126539,126539, 126541,126543, 126545,126546, 126548,126548, 126551,126551,
                 126553,126553, 126555,126555, 126557,126557, 126559,126559, 126561,126562,
                 126564,126564, 126567,126570, 126572,126578, 126580,126583, 126585,126588,
                 126590,126590, 126592,126601, 126603,126619, 126625,126627, 126629,126633,
                 126635,126651, 127232,127244, 130032,130041, 131072,173791, 173824,177976,
                 177984,178205, 178208,183969, 183984,191456, 194560,195101, 196608,201546 >>)

IsWordChar(c) == c \in WordChars

\* [a-z']
TokenChars == (Ord("a")..Ord("z")) \cup {Ord("'")}
IsTokenChar(c) == c \in TokenChars

\* The characters that str.lower() replaces by one other character, whatever
\* stands around them: first, last, step, d stands for the characters first,
\* first + step, ... up to last, each replaced by the character d code points
\* further on
LowerTable ==
    << 65,90,1,32, 192,214,1,32, 216,222,1,32, 256,302,2,1, 306,310,2,1, 313,327,2,1, 330,374,2,1,
      376,376,1,-121, 377,381,2,1, 385,385,1,210, 386,388,2,1, 390,390,1,206, 391,391,1,1,
      393,394,1,205, 395,395,1,1, 398,398,1,79, 399,399,1,202, 400,400,1,203, 401,401,1,1,
      403,403,1,205, 404,404,1,207, 406,406,1,211, 407,407,1,209, 408,408,1,1, 412,412,1,211,
      413,413,1,213, 415,415,1,214, 416,420,2,1, 422,422,1,218, 423,423,1,1, 425,425,1,218,
      428,428,1,1, 430,430,1,218, 431,431,1,1, 433,434,1,217, 435,437,2,1, 439,439,1,219,
      440,440,1,1, 444,444,1,1, 452,452,1,2, 453,453,1,1, 455,455,1,2, 456,456,1,1, 458,458,1,2,
      459,475,2,1, 478,494,2,1, 497,497,1,2, 498,500,2,1, 502,502,1,-97, 503,503,1,-56,
      504,542,2,1, 544,544,1,-130, 546,562,2,1, 570,570,1,10795, 571,571,1,1, 573,573,1,-163,
      574,574,1,10792, 577,577,1,1, 579,579,1,-195, 580,580,1,69, 581,581,1,71, 582,590,2,1,
      880,882,2,1, 886,886,1,1, 895,895,1,116, 902,902,1,38, 904,906,1,37, 908,908,1,64,
      910,911,1,63, 913,929,1,32, 932,939,1,32, 975,975,1,8, 984,1006,2,1, 1012,1012,1,-60,
      1015,1015,1,1, 1017,1017,1,-7, 1018,1018,1,1, 1021,1023,1,-130, 1024,1039,1,80,
      1040,1071,1,32, 1120,1152,2,1, 1162,1214,2,1, 1216,1216,1,15, 1217,1229,2,1, 1232,1326,2,1,
      1329,1366,1,48, 4256,4293,1,7264, 4295,4295,1,7264, 4301,4301,1,7264, 5024,5103,1,38864,
      5104,5109,1,8, 7312,7354,1,-3008, 7357,7359,1,-3008, 7680,7828,2,1, 7838,7838,1,-7615,
      7840,7934,2,1, 7944,7951,1,-8, 7960,7965,1,-8, 7976,7983,1,-8, 7992,7999,1,-8,
      8008,8013,1,-8, 8025,8031,2,-8, 8040,8047,1,-8, 8072,8079,1,-8, 8088,8095,1,-8,
      8104,8111,1,-8, 8120,8121,1,-8, 8122,8123,1,-74, 8124,8124,1,-9, 8136,8139,1,-86,
      8140,8140,1,-9, 8152,8153,1,-8, 8154,8155,1,-100, 8168,8169,1,-8, 8170,8171,1,-112,
      8172,8172,1,-7, 8184,8185,1,-128, 8186,8187,1,-126, 8188,8188,1,-9, 8486,8486,1,-7517,
      8490,8490,1,-8383, 8491,8491,1,-8262, 8498,8498,1,28, 8544,8559,1,16, 8579,8579,1,1,
      9398,9423,1,26, 11264,11311,1,48, 11360,11360,1,1, 11362,11362,1,-10743, 11363,11363,1,-3814,
      11364,11364,1,-10727, 11367,11371,2,1, 11373,11373,1,-10780, 11374,11374,1,-10749,
      11375,11375,1,-10783, 11376,11376,1,-10782, 11378,11378,1,1, 11381,11381,1,1,
      11390,11391,1,-10815, 11392,11490,2,1, 11499,11501,2,1, 11506,11506,1,1, 42560,42604,2,1,
      42624,42650,2,1, 42786,42798,2,1, 42802,42862,2,1, 42873,42875,2,1, 42877,42877,1,-35332,
      42878,42886,2,1, 42891,42891,1,1, 42893,42893,1,-42280, 42896,42898,2,1, 42902,42920,2,1,
      42922,42922,1,-42308, 42923,42923,1,-42319, 42924,42924,1,-42315, 42925,42925,1,-42305,
      42926,42926,1,-42308, 42928,42928,1,-42258, 42929,42929,1,-42282, 42930,42930,1,-42261,
      42931,42931,1,928, 42932,42946,2,1, 42948,42948,1,-48, 42949,42949,1,-42307,
      42950,42950,1,-35384, 42951,42953,2,1, 42960,42960,1,1, 42966,42968,2,1, 42997,42997,1,1,
      65313,65338,1,32, 66560,66599,1,40, 66736,66771,1,40, 66928,66938,1,39, 66940,66954,1,39,
      66956,66962,1,39, 66964,66965,1,39, 68736,68786,1,64, 71840,71871,1,32, 93760,93791,1,32,
      125184,125217,1,34 >>

LowerRuns ==
    { << LowerTable[4 * k - 3], LowerTable[4 * k - 2], LowerTable[4 * k - 1], LowerTable[4 * k] >> :
        k \in 1..(Len(LowerTable) \div 4) }

InRun(c, r) == r[1] <= c /\ c <= r[2] /\ (c - r[1]) % r[3] = 0

UpperChars == UNION { { c \in r[1]..r[2] : InRun(c, r) } : r \in LowerRuns }

LowerOf == [ c \in UpperChars |-> c + (CHOOSE r \in LowerRuns : InRun(c, r))[4] ]

\* The cased characters (upper case, lower case or title case)
Cased ==
    Intervals(<< 65,90, 97,122, 170,170, 181,181, 186,186, 192,214, 216,246, 248,442, 444,447,
                 452,659, 661,696, 704,705, 736,740, 837,837, 880,883, 886,887, 890,893, 895,895,
                 902,902, 904,906, 908,908, 910,929, 931,1013, 1015,1153, 1162,1327, 1329,1366,
                 1376,1416, 4256,4293, 4295,4295, 4301,4301, 4304,4346, 4349,4351, 5024,5109,
                 5112,5117, 7296,7304, 7312,7354, 7357,7359, 7424,7615, 7680,7957, 7960,7965,
                 7968,8005, 8008,8013, 8016,8023, 8025,8025, 8027,8027, 8029,8029, 8031,8061,
                 8064,8116, 8118,8124, 8126,8126, 8130,8132, 8134,8140, 8144,8147, 8150,8155,
                 8160,8172, 8178,8180, 8182,8188, 8305,8305, 8319,8319, 8336,8348, 8450,8450,
                 8455,8455, 8458,8467, 8469,8469, 8473,8477, 8484,8484, 8486,8486, 8488,8488,
                 8490,8493, 8495,8500, 8505,8505, 8508,8511, 8517,8521, 8526,8526, 8544,8575,
                 8579,8580, 9398,9449, 11264,11492, 11499,11502, 11506,11507, 11520,11557,
                 11559,11559, 11565,11565, 42560,42605, 42624,42653, 42786,42887, 42891,42894,
                 42896,42954, 42960,42961, 42963,42963, 42965,42969, 42997,42998, 43000,43002,
                 43824,43866, 43868,43880, 43888,43967, 64256,64262, 64275,64279, 65313,65338,
                 65345,65370, 66560,66639, 66736,66771, 66776,66811, 66928,66938, 66940,66954,
                 66956,66962, 66964,66965, 66967,66977, 66979,66993, 66995,67001, 67003,67004,
                 67456,67456, 67459,67461, 67463,67504, 67506,67514, 68736,68786, 68800,68850,
                 71840,71903, 93760,93823, 119808,119892, 119894,119964, 119966,119967,
                 119970,119970, 119973,119974, 119977,119980, 119982,119993, 119995,119995,
                 119997,120003, 120005,120069, 120071,120074, 120077,120084, 120086,120092,
                 120094,120121, 120123,120126, 120128,120132, 120134,120134, 120138,120144,
                 120146,120485, 120488,120512, 120514,120538, 120540,120570, 120572,120596,
                 120598,120628, 120630,120654, 120656,120686, 120688,120712, 120714,120744,
                 120746,120770, 120772,120779, 122624,122633, 122635,122654, 125184,125251,
                 127280,127305, 127312,127337, 127344,127369 >>)

\* The characters that the final-sigma rule skips
CaseIgnorable ==
    Intervals(<< 39,39, 46,46, 58,58, 94,94, 96,96, 168,168, 173,173, 175,175, 180,180, 183,184,
                 688,879, 884,885, 890,890, 900,901, 903,903, 1155,1161, 1369,1369, 1375,1375,
                 1425,1469, 1471,1471, 1473,1474, 1476,1477, 1479,1479, 1524,1524, 1536,1541,
                 1552,1562, 1564,1564, 1600,1600, 1611,1631, 1648,1648, 1750,1757, 1759,1768,
                 1770,1773, 1807,1807, 1809,1809, 1840,1866, 1958,1968, 2027,2037, 2042,2042,
                 2045,2045, 2070,2093, 2137,2139, 2184,2184, 2192,2193, 2200,2207, 2249,2306,
                 2362,2362, 2364,2364, 2369,2376, 2381,2381, 2385,2391, 2402,2403, 2417,2417,
                 2433,2433, 2492,2492, 2497,2500, 2509,2509, 2530,2531, 2558,2558, 2561,2562,
                 2620,2620, 2625,2626, 2631,2632, 2635,2637, 2641,2641, 2672,2673, 2677,2677,
                 2689,2690, 2748,2748, 2753,2757, 2759,2760, 2765,2765, 2786,2787, 2810,2815,
                 2817,2817, 2876,2876, 2879,2879, 2881,2884, 2893,2893, 2901,2902, 2914,2915,
                 2946,2946, 3008,3008, 3021,3021, 3072,3072, 3076,3076, 3132,3132, 3134,3136,
                 3142,3144, 3146,3149, 3157,3158, 3170,3171, 3201,3201, 3260,3260, 3263,3263,
                 3270,3270, 3276,3277, 3298,3299, 3328,3329, 3387,3388, 3393,3396, 3405,3405,
                 3426,3427, 3457,3457, 3530,3530, 3538,3540, 3542,3542, 3633,3633, 3636,3642,
                 3654,3662, 3761,3761, 3764,3772, 3782,3782, 3784,3789, 3864,3865, 3893,3893,
                 3895,3895, 3897,3897, 3953,3966, 3968,3972, 3974,3975, 3981,3991, 3993,4028,
                 4038,4038, 4141,4144, 4146,4151, 4153,4154, 4157,4158, 4184,4185, 4190,4192,
                 4209,4212, 4226,4226, 4229,4230, 4237,4237, 4253,4253, 4348,4348, 4957,4959,
                 5906,5908, 5938,5939, 5970,5971, 6002,6003, 6068,6069, 6071,6077, 6086,6086,
                 6089,6099, 6103,6103, 6109,6109, 6155,6159, 6211,6211, 6277,6278, 6313,6313,
                 6432,6434, 6439,6440, 6450,6450, 6457,6459, 6679,6680, 6683,6683, 6742,6742,
                 6744,6750, 6752,6752, 6754,6754, 6757,6764, 6771,6780, 6783,6783, 6823,6823,
                 6832,6862, 6912,6915, 6964,6964, 6966,6970, 6972,6972, 6978,6978, 7019,7027,
                 7040,7041, 7074,7077, 7080,7081, 7083,7085, 7142,7142, 7144,7145, 7149,7149,
                 7151,7153, 7212,7219, 7222,7223, 7288,7293, 7376,7378, 7380,7392, 7394,7400,
                 7405,7405, 7412,7412, 7416,7417, 7468,7530, 7544,7544, 7579,7679, 8125,8125,
                 8127,8129, 8141,8143, 8157,8159, 8173,8175, 8189,8190, 8203,8207, 8216,8217,
                 8228,8228, 8231,8231, 8234,8238, 8288,8292, 8294,8303, 8305,8305, 8319,8319,
                 8336,8348, 8400,8432, 11388,11389, 11503,11505, 11631,11631, 11647,11647,
                 11744,11775, 11823,11823, 12293,12293, 12330,12333, 12337,12341, 12347,12347,
                 12441,12446, 12540,12542, 40981,40981, 42232,42237, 42508,42508, 42607,42610,
                 42612,42621, 42623,42623, 42652,42655, 42736,42737, 42752,42785, 42864,42864,
                 42888,42890, 42994,42996, 43000,43001, 43010,43010, 43014,43014, 43019,43019,
                 43045,43046, 43052,43052, 43204,43205, 43232,43249, 43263,43263, 43302,43309,
                 43335,43345, 43392,43394, 43443,43443, 43446,43449, 43452,43453, 43471,43471,
                 43493,43494, 43561,43566, 43569,43570, 43573,43574, 43587,43587, 43596,43596,
                 43632,43632, 43644,43644, 43696,43696, 43698,43700, 43703,43704, 43710,43711,
                 43713,43713, 43741,43741, 43756,43757, 43763,43764, 43766,43766, 43867,43871,
                 43881,43883, 44005,44005, 44008,44008, 44013,44013, 64286,64286, 64434,64450,
                 65024,65039, 65043,65043, 65056,65071, 65106,65106, 65109,65109, 65279,65279,
                 65287,65287, 65294,65294, 65306,65306, 65342,65342, 65344,65344, 65392,65392,
                 65438,65439, 65507,65507, 65529,65531, 66045,66045, 66272,66272, 66422,66426,
                 67456,67461, 67463,67504, 67506,67514, 68097,68099, 68101,68102, 68108,68111,
                 68152,68154, 68159,68159, 68325,68326, 68900,68903, 69291,69292, 69446,69456,
                 69506,69509, 69633,69633, 69688,69702, 69744,69744, 69747,69748, 69759,69761,
                 69811,69814, 69817,69818, 69821,69821, 69826,69826, 69837,69837, 69888,69890,
                 69927,69931, 69933,69940, 70003,70003, 70016,70017, 70070,70078, 70089,70092,
                 70095,70095, 70191,70193, 70196,70196, 70198,70199, 70206,70206, 70367,70367,
                 70371,70378, 70400,70401, 70459,70460, 70464,70464, 70502,70508, 70512,70516,
                 70712,70719, 70722,70724, 70726,70726, 70750,70750, 70835,70840, 70842,70842,
                 70847,70848, 70850,70851, 71090,71093, 71100,71101, 71103,71104, 71132,71133,
                 71219,71226, 71229,71229, 71231,71232, 71339,71339, 71341,71341, 71344,71349,
                 71351,71351, 71453,71455, 71458,71461, 71463,71467, 71727,71735, 71737,71738,
                 71995,71996, 71998,71998, 72003,72003, 72148,72151, 72154,72155, 72160,72160,
                 72193,72202, 72243,72248, 72251,72254, 72263,72263, 72273,72278, 72281,72283,
                 72330,72342, 72344,72345, 72752,72758, 72760,72765, 72767,72767, 72850,72871,
                 72874,72880, 72882,72883, 72885,72886, 73009,73014, 73018,73018, 73020,73021,
                 73023,73029, 73031,73031, 73104,73105, 73109,73109, 73111,73111, 73459,73460,
                 78896,78904, 92912,92916, 92976,92982, 92992,92995, 94031,94031, 94095,94111,
                 94176,94177, 94179,94180, 110576,110579, 110581,110587, 110589,110590,
                 113821,113822, 113824,113827, 118528,118573, 118576,118598, 119143,119145,
                 119155,119170, 119173,119179, 119210,119213, 119362,119364, 121344,121398,
                 121403,121452, 121461,121461, 121476,121476, 121499,121503, 121505,121519,
                 122880,122886, 122888,122904, 122907,122913, 122915,122916, 122918,122922,
                 123184,123197, 123566,123566, 123628,123631, 125136,125142, 125252,125259,
                 127995,127999, 917505,917505, 917536,917631, 917760,917999 >>)

NUM_WORDS ==
    { Text(<<"z","e","r","o">>), Text(<<"o","n","e">>), Text(<<"t","w","o">>),
      Text(<<"t","h","r","e","e">>), Text(<<"f","o","u","r">>), Text(<<"f","i","v","e">>),
      Text(<<"s","i","x">>), Text(<<"s","e","v","e","n">>), Text(<<"e","i","g","h","t">>),
      Text(<<"n","i","n","e">>), Text(<<"t","e","n">>), Text(<<"e","l","e","v","e","n">>),
      Text(<<"t","w","e","l","v","e">>), Text(<<"t","h","i","r","t","e","e","n">>), Text(<<"f","o","u","r","t","e","e","n">>),
      Text(<<"f","i","f","t","e","e","n">>), Text(<<"s","i","x","t","e","e","n">>), Text(<<"s","e","v","e","n","t","e","e","n">>),
      Text(<<"e","i","g","h","t","e","e","n">>), Text(<<"n","i","n","e","t","e","e","n">>), Text(<<"t","w","e","n","t","y">>),
      Text(<<"t","h","i","r","t","y">>), Text(<<"f","o","r","t","y">>), Text(<<"f","i","f","t","y">>),
      Text(<<"s","i","x","t","y">>), Text(<<"s","e","v","e","n","t","y">>), Text(<<"e","i","g","h","t","y">>),
      Text(<<"n","i","n","e","t","y">>), Text(<<"h","u","n","d","r","e","d">>), Text(<<"t","h","o","u","s","a","n","d">>),
      Text(<<"m","i","l","l","i","o","n">>), Text(<<"b","i","l","l","i","o","n">>) }

\* the literal "<num>"
NumToken == Text(<<"<","n","u","m",">">>)

----------------------------------------------------------------------------
(* normalize_text_for_scoring / tokenize *)

RECURSIVE Concat(_)
Concat(ss) == IF ss = <<>> THEN <<>> ELSE Head(ss) \o Concat(Tail(ss))

\* The final-sigma context of the capital sigma at s[k]: the nearest character
\* before it that is not case-ignorable is cased, and the nearest such character
\* after it, if there is one, is not cased.
FinalSigma(s, k) ==
    LET before == { j \in 1..(k - 1) : s[j] \notin CaseIgnorable }
        after  == { j \in (k + 1)..Len(s) : s[j] \notin CaseIgnorable }
        Last(S)  == CHOOSE m \in S : \A n \in S : n <= m
        First(S) == CHOOSE m \in S : \A n \in S : m <= n
    IN  /\ before # {}
        /\ s[Last(before)] \in Cased
        /\ after = {} \/ s[First(after)] \notin Cased

\* What str.lower() puts in the place of s[k]: the capital sigma (U+03A3, 931)
\* becomes the final (U+03C2, 962) or the medial (U+03C3, 963) small sigma, the
\* capital I with dot above (U+0130, 304) becomes "i" (105) followed by the
\* combining dot above (U+0307, 775), any other upper-case character becomes
\* its lower-case character, and everything else stays.
LowerChar(s, k) ==
    IF s[k] = 931 THEN << IF FinalSigma(s, k) THEN 962 ELSE 963 >>
    ELSE IF s[k] = 304 THEN << 105, 775 >>
    ELSE IF s[k] \in UpperChars THEN << LowerOf[s[k]] >>
    ELSE << s[k] >>

\* str.lower()
Lower(s) == Concat([ k \in 1..Len(s) |-> LowerChar(s, k) ])

\* \b at position p: exactly one of the characters before and after p is a word character
WordBoundary(s, p) ==
    LET before == p >= 1 /\ IsWordChar(s[p])
        after  == p < Len(s) /\ IsWordChar(s[p + 1])
    IN  before # after

AllDigits(s, p, q) == \A k \in (p + 1)..q : s[k] \in Digits

\* [.,]
Separators == { Ord("."), Ord(",") }

\* The end of the match of \b\d+(?:[.,]\d+)?\b anchored at position p, or -1.
\* The engine prefers the longest \d+, then the group with its longest \d+, then no group.
MatchNumber(s, p) ==
    LET GroupEnds(q) ==
            { r \in (q + 2)..Len(s) :
                /\ s[q + 1] \in Separators
                /\ AllDigits(s, q + 1, r)
                /\ WordBoundary(s, r) }
        Ends(q) == GroupEnds(q) \cup (IF WordBoundary(s, q) THEN {q} ELSE {})
        Qs == { q \in (p + 1)..Len(s) : AllDigits(s, p, q) /\ Ends(q) # {} }
        Max(S) == CHOOSE m \in S : \A n \in S : n <= m
    IN  IF ~WordBoundary(s, p) \/ Qs = {} THEN -1
        ELSE LET q == Max(Qs)
             IN  IF GroupEnds(q) # {} THEN Max(GroupEnds(q)) ELSE q

\* re.sub(r"\b\d+(?:[.,]\d+)?\b", "<num>", s), scanning from position p
RECURSIVE SubNumbersFrom(_, _)
SubNumbersFrom(s, p) ==
    IF p >= Len(s) THEN <<>>
    ELSE LET e == MatchNumber(s, p)
         IN  IF e > p THEN NumToken \o SubNumbersFrom(s, e)
             ELSE <<s[p + 1]>> \o SubNumbersFrom(s, p + 1)

SubNumbers(s) == SubNumbersFrom(s, 0)

\* end of the maximal run of [a-z'] that starts at p
RECURSIVE TokenRunEnd(_, _)
TokenRunEnd(s, p) ==
    IF p < Len(s) /\ IsTokenChar(s[p + 1]) THEN TokenRunEnd(s, p + 1) ELSE p

IsNumTokenAt(s, p) ==
    p + Len(NumToken) <= Len(s) /\ SubSeq(s, p + 1, p + Len(NumToken)) = NumToken

\* FindAll with the placeholder alternative of the pattern left out: r"[a-z']+"
RECURSIVE FindWordsFrom(_, _)
FindWordsFrom(s, p) ==
    IF p >= Len(s) THEN <<>>
    ELSE IF IsTokenChar(s[p + 1])
         THEN LET q == TokenRunEnd(s, p)
              IN  <<SubSeq(s, p + 1, q)>> \o FindWordsFrom(s, q)
    ELSE FindWordsFrom(s, p + 1)

FindAllWordsOnly(s) == FindWordsFrom(s, 0)

\* re.findall(r"[a-z']+|<num>", s), scanning from position p
RECURSIVE FindAllFrom(_, _)
FindAllFrom(s, p) ==
    IF p >= Len(s) THEN <<>>
    ELSE IF IsTokenChar(s[p + 1])
         THEN LET q == TokenRunEnd(s, p)
              IN  <<SubSeq(s, p + 1, q)>> \o FindAllFrom(s, q)
    ELSE IF IsNumTokenAt(s, p)
         THEN <<NumToken>> \o FindAllFrom(s, p + Len(NumToken))
    ELSE FindAllFrom(s, p + 1)

FindAll(s) == FindAllFrom(s, 0)

\* "<num>" if t in NUM_WORDS else t, for every token
MapNumWords(ts) == [ k \in 1..Len(ts) |-> IF ts[k] \in NUM_WORDS THEN NumToken ELSE ts[k] ]

Blank == Text(<<" ">>)

\* " ".join(ts)
RECURSIVE Join(_)
Join(ts) ==
    IF ts = <<>> THEN <<>>
    ELSE IF Len(ts) = 1 THEN ts[1]
    ELSE ts[1] \o Blank \o Join(Tail(ts))

\* str.split(): the maximal runs of non-whitespace characters, from position p
RECURSIVE WordEnd(_, _)
WordEnd(s, p) ==
    IF p < Len(s) /\ s[p + 1] \notin Whitespace THEN WordEnd(s, p + 1) ELSE p

RECURSIVE SplitFrom(_, _)
SplitFrom(s, p) ==
    IF p >= Len(s) THEN <<>>
    ELSE IF s[p + 1] \in Whitespace THEN SplitFrom(s, p + 1)
    ELSE LET q == WordEnd(s, p)
         IN  <<SubSeq(s, p + 1, q)>> \o SplitFrom(s, q)

Split(s) == SplitFrom(s, 0)

normalize_text_for_scoring(t) == Join(MapNumWords(FindAll(SubNumbers(Lower(t)))))

tokenize(t) == Split(normalize_text_for_scoring(t))

----------------------------------------------------------------------------
(* align_words: difflib.SequenceMatcher(a=ref_tokens, b=hyp_tokens).get_opcodes() *)

\* The elements the matcher's autojunk heuristic drops from its index of b:
\* with 200 or more elements in b, those occurring more than len(b) // 100 + 1 times.
Popular(b) ==
    IF Len(b) >= 200
    THEN { x \in Range(b) : Cardinality({ j \in DOMAIN b : b[j] = x }) > (Len(b) \div 100) + 1 }
    ELSE {}

\* k = j2len[j] in row i: the length of the run of indexed matches that ends at
\* a[i], b[j] and stays inside a[alo:], b[blo:]; 0 when b[j] is not indexed under a[i].
RECURSIVE RunLength(_, _, _, _, _, _)
RunLength(a, b, alo, blo, i, j) ==
    IF a[i + 1] = b[j + 1] /\ b[j + 1] \notin Popular(b)
    THEN 1 + (IF i > alo /\ j > blo THEN RunLength(a, b, alo, blo, i - 1, j - 1) ELSE 0)
    ELSE 0

\* The two nested loops of find_longest_match (for i in range(alo, ahi), for j in
\* b2j[a[i]] in increasing order): best starts as <<alo, blo, 0>> and is replaced
\* only by a strictly longer run, so the result is the first cell, in loop order,
\* whose run has the greatest length.
LongestRun(a, b, lo, hi) ==
    LET runs == { <<i, j, RunLength(a, b, lo[1], lo[2], i, j)>> :
                    i \in lo[1]..(hi[1] - 1), j \in lo[2]..(hi[2] - 1) }
        longest == { r \in runs : r[3] > 0 /\ \A u \in runs : u[3] <= r[3] }
    IN  IF longest = {} THEN <<lo[1], lo[2], 0>>
        ELSE LET r == CHOOSE r \in longest :
                        \A u \in longest : r[1] < u[1] \/ (r[1] = u[1] /\ r[2] <= u[2])
             IN  <<r[1] - r[3] + 1, r[2] - r[3] + 1, r[3]>>

\* while besti > alo and bestj > blo and a[besti-1] == b[bestj-1]: grow to the left
RECURSIVE ExtendBack(_, _, _, _)
ExtendBack(a, b, lo, m) ==
    IF m[1] > lo[1] /\ m[2] > lo[2] /\ a[m[1]] = b[m[2]]
    THEN ExtendBack(a, b, lo, <<m[1] - 1, m[2] - 1, m[3] + 1>>)
    ELSE m

\* while besti+bestsize < ahi and bestj+bestsize < bhi and a[..] == b[..]: grow to the right
RECURSIVE ExtendForward(_, _, _, _)
ExtendForward(a, b, hi, m) ==
    IF m[1] + m[3] < hi[1] /\ m[2] + m[3] < hi[2] /\ a[m[1] + m[3] + 1] = b[m[2] + m[3] + 1]
    THEN ExtendForward(a, b, hi, <<m[1], m[2], m[3] + 1>>)
    ELSE m

\* find_longest_match(alo, ahi, blo, bhi) with lo = <<alo, blo>>, hi = <<ahi, bhi>>;
\* no element is junk (isjunk is None), so only the two junk-free extensions act.
find_longest_match(a, b, lo, hi) ==
    ExtendForward(a, b, hi,
        ExtendBack(a, b, lo,
            LongestRun(a, b, lo, hi)))

\* MatchingBlocksIn with the part right of the match searched in all of b[blo:bhi]
\* instead of b[j+k:bhi]
RECURSIVE MatchingBlocksCrossing(_, _, _, _)
MatchingBlocksCrossing(a, b, lo, hi) ==
    LET m == find_longest_match(a, b, lo, hi)
        i == m[1]
        j == m[2]
        k == m[3]
    IN  IF k = 0 THEN <<>>
        ELSE (IF lo[1] < i /\ lo[2] < j
              THEN MatchingBlocksCrossing(a, b, lo, <<i, j>>) ELSE <<>>)
             \o <<m>>
             \o (IF i + k < hi[1]
                 THEN MatchingBlocksCrossing(a, b, <<i + k, lo[2]>>, hi) ELSE <<>>)

\* The queue of get_matching_blocks, in sorted order: the blocks left of the
\* longest match, the match, the blocks right of it.
RECURSIVE MatchingBlocksIn(_, _, _, _)
MatchingBlocksIn(a, b, lo, hi) ==
    LET m == find_longest_match(a, b, lo, hi)
        i == m[1]
        j == m[2]
        k == m[3]
    IN  IF k = 0 THEN <<>>
        ELSE (IF lo[1] < i /\ lo[2] < j
              THEN MatchingBlocksIn(a, b, lo, <<i, j>>) ELSE <<>>)
             \o <<m>>
             \o (IF i + k < hi[1] /\ j + k < hi[2]
                 THEN MatchingBlocksIn(a, b, <<i + k, j + k>>, hi) ELSE <<>>)

\* The collapsing loop of get_matching_blocks: cur = <<i1, j1, k1>>
RECURSIVE CollapseAdjacent(_, _)
CollapseAdjacent(blocks, cur) ==
    IF blocks = <<>> THEN (IF cur[3] > 0 THEN <<cur>> ELSE <<>>)
    ELSE LET nxt == Head(blocks)
         IN  IF cur[1] + cur[3] = nxt[1] /\ cur[2] + cur[3] = nxt[2]
             THEN CollapseAdjacent(Tail(blocks), <<cur[1], cur[2], cur[3] + nxt[3]>>)
             ELSE (IF cur[3] > 0 THEN <<cur>> ELSE <<>>)
                  \o CollapseAdjacent(Tail(blocks), nxt)

get_matching_blocks(a, b) ==
    CollapseAdjacent(MatchingBlocksIn(a, b, <<0, 0>>, <<Len(a), Len(b)>>), <<0, 0, 0>>)
        \o << <<Len(a), Len(b), 0>> >>

Opcode(tag, i1, i2, j1, j2) == [tag |-> tag, i1 |-> i1, i2 |-> i2, j1 |-> j1, j2 |-> j2]

\* The loop of get_opcodes over the matching blocks, with i, j the ends of the last block
RECURSIVE OpcodesFrom(_, _, _)
OpcodesFrom(blocks, i, j) ==
    IF blocks = <<>> THEN <<>>
    ELSE LET ai   == Head(blocks)[1]
             bj   == Head(blocks)[2]
             size == Head(blocks)[3]
             gap  == IF i < ai /\ j < bj THEN <<Opcode("replace", i, ai, j, bj)>>
                     ELSE IF i < ai THEN <<Opcode("delete", i, ai, j, bj)>>
                     ELSE IF j < bj THEN <<Opcode("insert", i, ai, j, bj)>>
                     ELSE <<>>
             eq   == IF size > 0 THEN <<Opcode("equal", ai, ai + size, bj, bj + size)>>
                     ELSE <<>>
         IN  gap \o eq \o OpcodesFrom(Tail(blocks), ai + size, bj + size)

get_opcodes(a, b) == OpcodesFrom(get_matching_blocks(a, b), 0, 0)

align_words(ref_tokens, hyp_tokens) == get_opcodes(ref_tokens, hyp_tokens)

----------------------------------------------------------------------------
(* score_and_mismatches *)

EXTRA   == Text(<<"(","e","x","t","r","a",")">>)
MISSING == Text(<<"(","m","i","s","s","i","n","g",")">>)

\* " ".join(toks[i1:i2])
JoinSlice(toks, i1, i2) == Join(SubSeq(toks, i1 + 1, i2))

\* for k in range(i1, i2): if 0 <= k < len(ref_marks): ref_marks[k] = "bad"
MarkBad(marks, i1, i2) ==
    [ n \in DOMAIN marks |-> IF i1 <= n - 1 /\ n - 1 < i2 THEN "bad" ELSE marks[n] ]

Mismatch(type, ref, hyp) == [type |-> type, ref |-> ref, hyp |-> hyp]

\* The body of the loop "for tag, i1, i2, j1, j2 in ops", with its variants
\* equalGain: what an equal span adds to matched
\* insertGain: what an insert span adds to matched
\* markDelete: whether a delete span marks its reference tokens
\* swapReplace: whether a replace record carries its two texts exchanged
\* extra: the reference text of an insert record
ScoreStepWith(ref_tokens, hyp_tokens, op, acc, equalGain, insertGain, markDelete, swapReplace, extra) ==
    LET refText == JoinSlice(ref_tokens, op.i1, op.i2)
        hypText == JoinSlice(hyp_tokens, op.j1, op.j2)
    IN  IF op.tag = "equal"
        THEN [acc EXCEPT !.matched = @ + equalGain]
        ELSE IF op.tag = "replace"
        THEN [acc EXCEPT
                !.ref_marks  = MarkBad(@, op.i1, op.i2),
                !.mismatches = Append(@, IF swapReplace
                                         THEN Mismatch("replace", hypText, refText)
                                         ELSE Mismatch("replace", refText, hypText))]
        ELSE IF op.tag = "delete"
        THEN [acc EXCEPT
                !.ref_marks  = IF markDelete THEN MarkBad(@, op.i1, op.i2) ELSE @,
                !.mismatches = Append(@, Mismatch("delete", refText, MISSING))]
        ELSE IF op.tag = "insert"
        THEN [acc EXCEPT
                !.matched    = @ + insertGain,
                !.mismatches = Append(@, Mismatch("insert", extra, hypText))]
        ELSE acc

\* matched += (j2 - j1) on insert spans as well
ScoreStepCountsInserted(ref_tokens, hyp_tokens, op, acc) ==
    ScoreStepWith(ref_tokens, hyp_tokens, op, acc, op.i2 - op.i1, op.j2 - op.j1, TRUE, FALSE, EXTRA)

\* matched += (i2 - i1 - 1)
ScoreStepOffByOne(ref_tokens, hyp_tokens, op, acc) ==
    ScoreStepWith(ref_tokens, hyp_tokens, op, acc, op.i2 - op.i1 - 1, 0, TRUE, FALSE, EXTRA)

\* an insert record that carries "(missing)" as its reference text
ScoreStepInsertMissing(ref_tokens, hyp_tokens, op, acc) ==
    ScoreStepWith(ref_tokens, hyp_tokens, op, acc, op.i2 - op.i1, 0, TRUE, FALSE, MISSING)

\* a delete span that leaves its reference tokens "ok"
ScoreStepDeleteUnmarked(ref_tokens, hyp_tokens, op, acc) ==
    ScoreStepWith(ref_tokens, hyp_tokens, op, acc, op.i2 - op.i1, 0, FALSE, FALSE, EXTRA)

\* a replace record with "ref" and "hyp" exchanged
ScoreStepReplaceSwapped(ref_tokens, hyp_tokens, op, acc) ==
    ScoreStepWith(ref_tokens, hyp_tokens, op, acc, op.i2 - op.i1, 0, TRUE, TRUE, EXTRA)

\* One iteration of "for tag, i1, i2, j1, j2 in ops" on acc = [matched, mismatches, ref_marks]
ScoreStep(ref_tokens, hyp_tokens, op, acc) ==
    IF op.tag = "equal"
    THEN [acc EXCEPT !.matched = @ + (op.i2 - op.i1)]
    ELSE IF op.tag = "replace"
    THEN [acc EXCEPT
            !.ref_marks  = MarkBad(@, op.i1, op.i2),
            !.mismatches = Append(@, Mismatch("replace",
                                      JoinSlice(ref_tokens, op.i1, op.i2),
                                      JoinSlice(hyp_tokens, op.j1, op.j2)))]
    ELSE IF op.tag = "delete"
    THEN [acc EXCEPT
            !.ref_marks  = MarkBad(@, op.i1, op.i2),
            !.mismatches = Append(@, Mismatch("delete",
                                      JoinSlice(ref_tokens, op.i1, op.i2), MISSING))]
    ELSE IF op.tag = "insert"
    THEN [acc EXCEPT
            !.mismatches = Append(@, Mismatch("insert",
                                      EXTRA, JoinSlice(hyp_tokens, op.j1, op.j2)))]
    ELSE acc

RECURSIVE ScoreLoop(_, _, _, _)
ScoreLoop(ref_tokens, hyp_tokens, ops, acc) ==
    IF ops = <<>> THEN acc
    ELSE ScoreLoop(ref_tokens, hyp_tokens, Tail(ops),
                   ScoreStep(ref_tokens, hyp_tokens, Head(ops), acc))

Max2(x, y) == IF x >= y THEN x ELSE y

\* The float 100.0 * matched / max(1, len(ref_tokens)) is kept as the exact
\* ratio num / den; 0.0 is 0 / 1.
Ratio(num, den) == [num |-> num, den |-> den]

ScoreResult(score, mismatches, ref_tokens, hyp_tokens, ref_marks) ==
    [score |-> score, mismatches |-> mismatches, ref_tokens |-> ref_tokens,
     hyp_tokens |-> hyp_tokens, ref_marks |-> ref_marks]

\* score_and_mismatches without "if not ref_tokens: return ..."
ScoreWithoutShortCircuit(ref, hyp) ==
    LET ref_tokens == tokenize(ref)
        hyp_tokens == tokenize(hyp)
        ops == align_words(ref_tokens, hyp_tokens)
        acc == ScoreLoop(ref_tokens, hyp_tokens, ops,
                         [matched    |-> 0,
                          mismatches |-> <<>>,
                          ref_marks  |-> [n \in 1..Len(ref_tokens) |-> "ok"]])
    IN  ScoreResult(Ratio(100 * acc.matched, Max2(1, Len(ref_tokens))),
                    acc.mismatches, ref_tokens, hyp_tokens, acc.ref_marks)

score_and_mismatches(ref, hyp) ==
    LET ref_tokens == tokenize(ref)
        hyp_tokens == tokenize(hyp)
    IN  IF ref_tokens = <<>>
        THEN ScoreResult(Ratio(0, 1), <<>>, ref_tokens, hyp_tokens, <<>>)
        ELSE LET ops == align_words(ref_tokens, hyp_tokens)
                 acc == ScoreLoop(ref_tokens, hyp_tokens, ops,
                                  [matched    |-> 0,
                                   mismatches |-> <<>>,
                                   ref_marks  |-> [n \in 1..Len(ref_tokens) |-> "ok"]])
             IN  ScoreResult(Ratio(100 * acc.matched, Max2(1, Len(ref_tokens))),
                             acc.mismatches, ref_tokens, hyp_tokens, acc.ref_marks)

----------------------------------------------------------------------------
(* Inputs *)

\* The sequences of at most n elements of F
RECURSIVE SeqsUpTo(_, _)
SeqsUpTo(F, n) ==
    IF n = 0 THEN { <<>> }
    ELSE LET P == SeqsUpTo(F, n - 1)
         IN  P \cup { Append(p, f) : p \in { x \in P : Len(x) = n - 1 }, f \in F }

\* Pieces of raw text: a letter, a digit, a separator, a blank, an apostrophe, an
\* underscore, a capitalised number word and the placeholder's own text
TokFragments ==
    { Text(<<"a">>), Text(<<"1">>), Text(<<".">>), Text(<<" ">>), Text(<<"'">>), Text(<<"_">>),
      Text(<<"T","e","n">>), NumToken }

\* Pieces outside ASCII, next to an ASCII digit: capital E with acute (U+00C9),
\* the Arabic-Indic digit three (U+0663), the Kelvin sign (U+212A), capital I with
\* dot above (U+0130), capital sigma (U+03A3), superscript two (U+00B2) and the
\* ideograph U+4E2D
UnicodeFragments ==
    { Text(<<"1">>), <<201>>, <<1635>>, <<8490>>, <<304>>, <<931>>, <<178>>, <<20013>> }

TokTexts ==
    { Concat(fs) : fs \in SeqsUpTo(TokFragments, MaxFrags) }
        \cup { Concat(fs) : fs \in SeqsUpTo(UnicodeFragments, MaxFrags) }

\* Words of a reference text and of a transcript, written with blanks between them
RefFragments == { Text(<<"a">>), Text(<<"1">>), Text(<<"?">>) }
HypFragments == { Text(<<"A">>), Text(<<"t","e","n">>) }

\* Reference texts and transcripts with characters outside ASCII and with line
\* breaks and tabs between the words
UnicodeRefTexts ==
    { <<233>> \o Text(<<"1">>),
      <<8490, 32, 1635>>,
      <<304>> \o Text(<<"\n","a","\t">>) \o <<65297>>,
      <<20013>> \o Text(<<"1"," ","a">>) }
UnicodeHypTexts ==
    { Text(<<"1">>),
      Text(<<"k"," ","t","h","r","e","e">>),
      Text(<<"I">>) \o <<160, 1635, 233>>,
      <<31532>> \o Text(<<"1">>) \o <<31456>> \o Text(<<" ","a">>) }

RefTexts == { Join(ws) : ws \in SeqsUpTo(RefFragments, MaxRefWords) } \cup UnicodeRefTexts
HypTexts == { Join(ws) : ws \in SeqsUpTo(HypFragments, MaxHypWords) } \cup UnicodeHypTexts

None    == <<>>
Some(v) == <<v>>

NoResult == ScoreResult(Ratio(0, 1), <<>>, <<>>, <<>>, <<>>)

TokIdle   == tpc = "off" /\ text = <<>> /\ tokens = <<>> /\ retokens = <<>>
ScoreIdle == pc = "off" /\ ref_text = <<>> /\ hyp_text = <<>> /\ result = NoResult
UIIdle    == /\ last = None /\ ref_key = 0 /\ audio_key = 0 /\ new_session = <<>>
             /\ ref_widget = <<>> /\ audio_widget = None /\ score_btn = FALSE
             /\ run = "off" /\ queued = FALSE /\ locals = None /\ items = <<>>
             /\ tts_cache = {} /\ outcome = "none" /\ checked = FALSE

----------------------------------------------------------------------------
(* Tokenizer runs: tokenize(text), then tokenize(" ".join(tokens)) *)

TokInit ==
    /\ tpc = "input"
    /\ text \in TokTexts
    /\ tokens = <<>>
    /\ retokens = <<>>
    /\ ScoreIdle
    /\ UIIdle

Tokenize ==
    /\ tpc = "input"
    /\ tokens' = tokenize(text)
    /\ tpc' = "tokenized"
    /\ UNCHANGED <<text, retokens, scoreVars, uiVars>>

Retokenize ==
    /\ tpc = "tokenized"
    /\ retokens' = tokenize(Join(tokens))
    /\ tpc' = "retokenized"
    /\ UNCHANGED <<text, tokens, scoreVars, uiVars>>

TokNext == Tokenize \/ Retokenize

SpecTok == TokInit /\ [][TokNext]_vars

----------------------------------------------------------------------------
(* Scoring runs: score_and_mismatches(ref_text, hyp_text) *)

Init ==
    /\ pc = "input"
    /\ ref_text \in RefTexts
    /\ hyp_text \in HypTexts \cup {ref_text}
    /\ result = NoResult
    /\ TokIdle
    /\ UIIdle

Score ==
    /\ pc = "input"
    /\ result' = score_and_mismatches(ref_text, hyp_text)
    /\ pc' = "scored"
    /\ UNCHANGED <<ref_text, hyp_text, tokVars, uiVars>>

Next == Score

Spec == Init /\ [][Next]_vars

----------------------------------------------------------------------------
(* The Streamlit session: st.session_state.last / ref_key / audio_key, the query
   parameter new_session, the two keyed input widgets, the check button and the
   process-wide st.cache_data cache of synthesized phrases.

   A browser event asks for a script run; a run executes the script from top to
   bottom on the state it finds.  The script blocks in two places, the request of
   transcribe() and the request of each tts_wav_bytes() call that misses the
   cache; while it blocks, further browser events arrive and other sessions of
   the same server process run.  run is "idle", "pending" (a run asked for by an
   event), "rerun" (the run st.rerun() asked for), "transcribing" (blocked in
   transcribe) or "rendering" (in the loop over the practice phrases); locals
   holds ref_text and audio_bytes of the blocked script, items the phrases still
   to render, queued whether an event has arrived since the run began.  outcome
   is what the last run reported; checked records whether a check has stored a
   result since the last reset_session(). *)

\* str.strip(): leading and trailing whitespace removed
RECURSIVE StripLeft(_)
StripLeft(s) == IF s # <<>> /\ Head(s) \in Whitespace THEN StripLeft(Tail(s)) ELSE s

RECURSIVE StripRight(_)
StripRight(s) ==
    IF s # <<>> /\ s[Len(s)] \in Whitespace THEN StripRight(SubSeq(s, 1, Len(s) - 1)) ELSE s

Strip(s) == StripRight(StripLeft(s))

NUMBER == Text(<<"n","u","m","b","e","r">>)

\* str.replace("<num>", "number"), scanning from position p
RECURSIVE ReplaceNumFrom(_, _)
ReplaceNumFrom(s, p) ==
    IF p >= Len(s) THEN <<>>
    ELSE IF IsNumTokenAt(s, p) THEN NUMBER \o ReplaceNumFrom(s, p + Len(NumToken))
    ELSE <<s[p + 1]>> \o ReplaceNumFrom(s, p + 1)

MAX_PRACTICE_ITEMS == 12

\* The loop of practice_items_from_mismatches over the records ms, with out the
\* phrases collected so far (seen holds the same phrases)
RECURSIVE PracticeItemsFrom(_, _, _)
PracticeItemsFrom(ms, out, max_items) ==
    IF ms = <<>> THEN out
    ELSE LET ref == Strip(Head(ms).ref)
         IN  IF ref = <<>> \/ ref = EXTRA
             THEN PracticeItemsFrom(Tail(ms), out, max_items)
             ELSE LET phrase == ReplaceNumFrom(ref, 0)
                  IN  IF phrase \in Range(out)
                      THEN PracticeItemsFrom(Tail(ms), out, max_items)
                      ELSE IF Len(out) + 1 >= max_items THEN Append(out, phrase)
                      ELSE PracticeItemsFrom(Tail(ms), Append(out, phrase), max_items)

practice_items_from_mismatches(mismatches, max_items) ==
    PracticeItemsFrom(mismatches, <<>>, max_items)

\* What the user can type as reference and what the service can return
RefInputs ==
    { <<>>, Text(<<"\n">>), Text(<<" ","\t"," ">>), Text(<<"?">>), Text(<<"a"," ","1","\n">>) }
Transcripts == { <<>>, Text(<<"A">>), Text(<<"t","e","n"," ","A">>) }
Recording   == Some("wav")

\* Phrases that other sessions of the server synthesize
OtherPhrases == { Text(<<"a">>), NUMBER }

ONE == <<"1">>

SessionState ==
    [last |-> last, ref_key |-> ref_key, audio_key |-> audio_key, cache |-> tts_cache]

\* reset_session()
reset_session(ss) ==
    [ss EXCEPT !.last = None, !.ref_key = @ + 1, !.audio_key = @ + 1, !.cache = {}]

\* clear_query_params that leaves the parameters in place
KeepQueryParams(qp) == qp

\* clear_query_params(): st.query_params.clear()
clear_query_params(qp) == None

\* The entry of last that a successful check stores
Stored(r) ==
    [score |-> r.score, mismatches |-> r.mismatches,
     ref_tokens |-> r.ref_tokens, ref_marks |-> r.ref_marks]

\* "if st.session_state.last is not None: ... if mismatches: items = ...": the
\* phrases the rest of the script renders when the stored result is l
RenderItems(l) ==
    IF l = None \/ l[1].mismatches = <<>> THEN <<>>
    ELSE practice_items_from_mismatches(l[1].mismatches, MAX_PRACTICE_ITEMS)

UIInit ==
    /\ last = None
    /\ ref_key = 0
    /\ audio_key = 0
    /\ new_session = None
    /\ ref_widget = <<>>
    /\ audio_widget = None
    /\ score_btn = FALSE
    /\ run = "idle"
    /\ queued = FALSE
    /\ locals = None
    /\ items = <<>>
    /\ tts_cache = {}
    /\ outcome = "none"
    /\ checked = FALSE
    /\ TokIdle
    /\ ScoreIdle

Blocked == run \in {"transcribing", "rendering"}

\* A browser event reaches the server: it starts a run when the script is idle
\* and is kept for the next run while the script is blocked in a request
Arrive ==
    /\ run = "idle" \/ Blocked
    /\ run' = IF run = "idle" THEN "pending" ELSE run
    /\ queued' = Blocked

\* The user edits the text area
EditReference ==
    /\ Arrive
    /\ \E t \in RefInputs : ref_widget' = t
    /\ UNCHANGED <<last, ref_key, audio_key, new_session, audio_widget, score_btn,
                   locals, items, tts_cache, outcome, checked, tokVars, scoreVars>>

\* The user records a clip or discards it
RecordAudio ==
    /\ Arrive
    /\ \E a \in {None, Recording} : audio_widget' = a
    /\ UNCHANGED <<last, ref_key, audio_key, new_session, ref_widget, score_btn,
                   locals, items, tts_cache, outcome, checked, tokVars, scoreVars>>

\* The user clicks "Check pronunciation"
ClickCheck ==
    /\ Arrive
    /\ score_btn' = TRUE
    /\ UNCHANGED <<last, ref_key, audio_key, new_session, ref_widget, audio_widget,
                   locals, items, tts_cache, outcome, checked, tokVars, scoreVars>>

\* The user follows the link href="?new_session=1"
OpenNewSessionLink ==
    /\ Arrive
    /\ ref_key < MaxKey
    /\ new_session' = ONE
    /\ UNCHANGED <<last, ref_key, audio_key, ref_widget, audio_widget, score_btn,
                   locals, items, tts_cache, outcome, checked, tokVars, scoreVars>>

Running == run \in {"pending", "rerun"}

\* The script has come to its end or to st.stop(): the next run starts if an
\* event has arrived in the meantime
Finish ==
    /\ run' = IF queued THEN "pending" ELSE "idle"
    /\ queued' = FALSE
    /\ locals' = None
    /\ items' = <<>>

\* The script goes on to "Render results (if any)" with the stored result l
Render(l) ==
    IF RenderItems(l) = <<>> THEN Finish
    ELSE /\ run' = "rendering"
         /\ queued' = queued
         /\ locals' = None
         /\ items' = RenderItems(l)

\* handle_new_session_param() with val == "1": reset, clear, st.rerun().  The
\* widgets of the rerun have new keys and so are empty.
RunNewSession ==
    /\ Running
    /\ new_session = ONE
    /\ ref_key < MaxKey
    /\ LET ss == reset_session(SessionState)
       IN  /\ last' = ss.last
           /\ ref_key' = ss.ref_key
           /\ audio_key' = ss.audio_key
           /\ tts_cache' = ss.cache
    /\ new_session' = clear_query_params(new_session)
    /\ ref_widget' = <<>>
    /\ audio_widget' = None
    /\ score_btn' = FALSE
    /\ run' = "rerun"
    /\ outcome' = "reset"
    /\ checked' = FALSE
    /\ UNCHANGED <<queued, locals, items, tokVars, scoreVars>>

\* A run without a click: the stored result, if any, is rendered again
RunPlain ==
    /\ Running
    /\ new_session # ONE
    /\ ~score_btn
    /\ Render(last)
    /\ outcome' = "none"
    /\ UNCHANGED <<last, ref_key, audio_key, new_session, ref_widget, audio_widget,
                   score_btn, tts_cache, checked, tokVars, scoreVars>>

\* st.error(...); st.stop()
CheckFails(why) ==
    /\ Finish
    /\ score_btn' = FALSE
    /\ outcome' = why
    /\ UNCHANGED <<last, ref_key, audio_key, new_session, ref_widget, audio_widget,
                   tts_cache, checked, tokVars, scoreVars>>

\* if not ref_text.strip(): st.error(...); st.stop()
RunCheckNoText ==
    /\ Running
    /\ new_session # ONE
    /\ score_btn
    /\ Strip(ref_widget) = <<>>
    /\ CheckFails("error_ref")

\* if audio_bytes is None: st.error(...); st.stop()
RunCheckNoAudio ==
    /\ Running
    /\ new_session # ONE
    /\ score_btn
    /\ Strip(ref_widget) # <<>>
    /\ audio_widget = None
    /\ CheckFails("error_audio")

\* with st.spinner("Analyzing..."): transcribe(audio_bytes) sends its request and
\* the script waits for the answer
RunCheckTranscribe ==
    /\ Running
    /\ new_session # ONE
    /\ score_btn
    /\ Strip(ref_widget) # <<>>
    /\ audio_widget # None
    /\ locals' = Some([ref_text |-> ref_widget, audio_bytes |-> audio_widget[1]])
    /\ run' = "transcribing"
    /\ score_btn' = FALSE
    /\ outcome' = "analyzing"
    /\ UNCHANGED <<last, ref_key, audio_key, new_session, ref_widget, audio_widget,
                   queued, items, tts_cache, checked, tokVars, scoreVars>>

\* transcribe(audio_bytes) raises: st.error(...); st.stop()
TranscribeRaises ==
    /\ run = "transcribing"
    /\ Finish
    /\ outcome' = "error_stt"
    /\ UNCHANGED <<last, ref_key, audio_key, new_session, ref_widget, audio_widget,
                   score_btn, tts_cache, checked, tokVars, scoreVars>>

\* transcribe(audio_bytes) returns: the transcript is scored against the
\* ref_text the script read before the request, the result is stored and the
\* script goes on to render it
TranscribeReturns ==
    /\ run = "transcribing"
    /\ \E transcript \in Transcripts :
          LET l == Some(Stored(score_and_mismatches(locals[1].ref_text, transcript)))
          IN  /\ last' = l
              /\ Render(l)
    /\ outcome' = "ok"
    /\ checked' = TRUE
    /\ UNCHANGED <<ref_key, audio_key, new_session, ref_widget, audio_widget,
                   score_btn, tts_cache, tokVars, scoreVars>>

\* One iteration of "for phrase in items": tts_wav_bytes(phrase) answers from the
\* cache or sends its request; a call that returns leaves the phrase cached, a
\* call that raises is reported in the row of the phrase
RenderPhrase ==
    /\ run = "rendering"
    /\ \E returned \in BOOLEAN :
          tts_cache' = IF returned \/ Head(items) \in tts_cache
                       THEN tts_cache \cup {Head(items)}
                       ELSE tts_cache
    /\ IF Tail(items) = <<>> THEN Finish
       ELSE /\ items' = Tail(items)
            /\ UNCHANGED <<run, queued, locals>>
    /\ UNCHANGED <<last, ref_key, audio_key, new_session, ref_widget, audio_widget,
                   score_btn, outcome, checked, tokVars, scoreVars>>

\* Streamlit stops a script for which a new run has been asked at the first st.*
\* call after the request the script was blocked in, before any later statement:
\* nothing more is stored and the new run starts
RunInterrupted ==
    /\ Blocked
    /\ queued
    /\ run' = "pending"
    /\ queued' = FALSE
    /\ locals' = None
    /\ items' = <<>>
    /\ outcome' = IF run = "transcribing" THEN "interrupted" ELSE outcome
    /\ UNCHANGED <<last, ref_key, audio_key, new_session, ref_widget, audio_widget,
                   score_btn, tts_cache, checked, tokVars, scoreVars>>

\* Another session of the same server runs reset_session(): st.cache_data.clear()
\* empties the cache of every session
OtherSessionReset ==
    /\ tts_cache # {}
    /\ tts_cache' = {}
    /\ UNCHANGED <<last, ref_key, audio_key, new_session, ref_widget, audio_widget,
                   score_btn, run, queued, locals, items, outcome, checked,
                   tokVars, scoreVars>>

\* Another session renders a phrase: tts_wav_bytes caches it for every session
OtherSessionRender ==
    /\ \E phrase \in OtherPhrases \ tts_cache : tts_cache' = tts_cache \cup {phrase}
    /\ UNCHANGED <<last, ref_key, audio_key, new_session, ref_widget, audio_widget,
                   score_btn, run, queued, locals, items, outcome, checked,
                   tokVars, scoreVars>>

UINext ==
    \/ EditReference
    \/ RecordAudio
    \/ ClickCheck
    \/ OpenNewSessionLink
    \/ RunNewSession
    \/ RunPlain
    \/ RunCheckNoText
    \/ RunCheckNoAudio
    \/ RunCheckTranscribe
    \/ TranscribeRaises
    \/ TranscribeReturns
    \/ RenderPhrase
    \/ RunInterrupted
    \/ OtherSessionReset
    \/ OtherSessionRender

SpecUI == UIInit /\ [][UINext]_vars

----------------------------------------------------------------------------
(* Properties of the scoring runs *)

Scored == pc = "scored"

\* The alignment of the returned token sequences
Ops == align_words(result.ref_tokens, result.hyp_tokens)

\* Reference tokens covered by equal spans
RECURSIVE EqualCovered(_)
EqualCovered(ops) ==
    IF ops = <<>> THEN 0
    ELSE (IF Head(ops).tag = "equal" THEN Head(ops).i2 - Head(ops).i1 ELSE 0)
         + EqualCovered(Tail(ops))

FullScore == result.score.num = 100 * result.score.den

AllOk == \A k \in DOMAIN result.ref_marks : result.ref_marks[k] = "ok"

OnlyInserts ==
    \A n \in DOMAIN result.mismatches :
        result.mismatches[n].type = "insert" /\ result.mismatches[n].ref = EXTRA

\* Length of a longest common subsequence
RECURSIVE LCSLength(_, _)
LCSLength(a, b) ==
    IF a = <<>> \/ b = <<>> THEN 0
    ELSE IF Head(a) = Head(b) THEN 1 + LCSLength(Tail(a), Tail(b))
    ELSE Max2(LCSLength(Tail(a), b), LCSLength(a, Tail(b)))

\* Length of a longest common contiguous run
LongestCommonRun(a, b) ==
    LET common == { k \in 0..Len(a) :
                      \E i \in 0..(Len(a) - k), j \in 0..(Len(b) - k) :
                          SubSeq(a, i + 1, i + k) = SubSeq(b, j + 1, j + k) }
    IN  CHOOSE k \in common : \A n \in common : n <= k

\* a is b with elements left out
RECURSIVE IsSubsequence(_, _)
IsSubsequence(a, b) ==
    IF a = <<>> THEN TRUE
    ELSE IF b = <<>> THEN FALSE
    ELSE IF Head(a) = Head(b) THEN IsSubsequence(Tail(a), Tail(b))
    ELSE IsSubsequence(a, Tail(b))

\* a occurs in b as one contiguous run
OccursIn(a, b) ==
    \E o \in 0..(Len(b) - Len(a)) : SubSeq(b, o + 1, o + Len(a)) = a

\* C1: every scoring run returns a score between 0 and 100; the reference tokens
\* counted as matched are never negative and never more than the reference has.
C1_ScoreInRange ==
    Scored =>
        /\ EqualCovered(Ops) >= 0
        /\ EqualCovered(Ops) <= Len(result.ref_tokens)
        /\ result.score.den > 0
        /\ result.score.num >= 0
        /\ result.score.num <= 100 * result.score.den

C1_Witness ==
    /\ Scored
    /\ result.score.num > 0
    /\ result.score.num < 100 * result.score.den
    /\ Len(result.hyp_tokens) > Len(result.ref_tokens)

\* C2 as stated: scoring any non-empty string against itself gives 100, no
\* mismatch and only "ok" marks.
C2_IdentityOfAnyNonEmptyText ==
    (Scored /\ hyp_text = ref_text /\ ref_text # <<>>) =>
        FullScore /\ result.mismatches = <<>> /\ AllOk

\* C2 amended: scoring a text that has at least one token against itself gives
\* 100, no mismatch and one "ok" mark for every reference token.
C2_IdentityOfTokenizedText ==
    (Scored /\ hyp_text = ref_text /\ tokenize(ref_text) # <<>>) =>
        /\ FullScore
        /\ result.mismatches = <<>>
        /\ Len(result.ref_marks) = Len(result.ref_tokens)
        /\ AllOk

C2_Witness ==
    /\ Scored
    /\ hyp_text = ref_text
    /\ Len(result.ref_tokens) >= 2
    /\ Len(ref_text) > Len(Join(result.ref_tokens))
    /\ FullScore

\* C3 as stated: a hypothesis that holds the reference tokens as a subsequence
\* scores 100, with every mark "ok" and only insert records.
C3_InsertionAnywhere ==
    (Scored /\ result.ref_tokens # <<>>
            /\ IsSubsequence(result.ref_tokens, result.hyp_tokens)) =>
        FullScore /\ AllOk /\ OnlyInserts

\* C3 amended: a hypothesis of fewer than 200 tokens that holds the reference
\* tokens as one contiguous run (extra tokens before and after it only) scores
\* 100, with every mark "ok" and only insert records with ref "(extra)".
C3_InsertionAroundReference ==
    (Scored /\ result.ref_tokens # <<>>
            /\ Len(result.hyp_tokens) < 200
            /\ OccursIn(result.ref_tokens, result.hyp_tokens)) =>
        FullScore /\ AllOk /\ OnlyInserts

C3_Witness ==
    /\ Scored
    /\ Len(result.ref_tokens) >= 2
    /\ OccursIn(result.ref_tokens, result.hyp_tokens)
    /\ Len(result.mismatches) = 2
    /\ FullScore

\* C4: a reference text without tokens gives score 0.0, no mismatch, no reference
\* token, the hypothesis tokens and no mark, whatever the hypothesis is.
C4_EmptyReferenceShortCircuit ==
    (Scored /\ tokenize(ref_text) = <<>>) =>
        /\ result.score.num = 0
        /\ result.mismatches = <<>>
        /\ result.ref_tokens = <<>>
        /\ result.hyp_tokens = tokenize(hyp_text)
        /\ result.ref_marks = <<>>

C4_Witness ==
    /\ Scored
    /\ ref_text # <<>>
    /\ result.ref_tokens = <<>>
    /\ Len(result.hyp_tokens) >= 2

InSpan(k, op) == op.i1 <= k - 1 /\ k - 1 < op.i2

\* C5: the marks are as many as the reference tokens; a mark is "bad" exactly
\* inside the replace and delete spans and "ok" exactly inside the equal spans;
\* the "ok" marks are as many as the matched tokens of the score.
C5_ReferenceMarking ==
    (Scored /\ result.ref_tokens # <<>>) =>
        /\ Len(result.ref_marks) = Len(result.ref_tokens)
        /\ \A k \in 1..Len(result.ref_tokens) :
            /\ result.ref_marks[k] = "bad" <=>
                  \E n \in DOMAIN Ops : Ops[n].tag \in {"replace", "delete"} /\ InSpan(k, Ops[n])
            /\ result.ref_marks[k] = "ok" <=>
                  \E n \in DOMAIN Ops : Ops[n].tag = "equal" /\ InSpan(k, Ops[n])
        /\ 100 * Cardinality({ k \in DOMAIN result.ref_marks : result.ref_marks[k] = "ok" })
              = result.score.num

C5_Witness ==
    /\ Scored
    /\ \E k \in DOMAIN result.ref_marks : result.ref_marks[k] = "ok"
    /\ \E k \in DOMAIN result.ref_marks : result.ref_marks[k] = "bad"
    /\ \E n \in DOMAIN Ops : Ops[n].tag = "delete"
    /\ \E n \in DOMAIN Ops : Ops[n].tag = "insert"

NotEqualSpan(op) == op.tag # "equal"

\* C6: the mismatch list holds one record for every span that is not equal, in
\* the order of the spans: insert with ref "(extra)" and the joined hypothesis
\* span, delete with the joined reference span and hyp "(missing)", replace with
\* both joined spans, neither of them empty.
C6_MismatchList ==
    (Scored /\ result.ref_tokens # <<>>) =>
        LET spans == SelectSeq(Ops, NotEqualSpan)
        IN  /\ Len(result.mismatches) = Len(spans)
            /\ \A n \in DOMAIN spans :
                LET op      == spans[n]
                    m       == result.mismatches[n]
                    refText == Join(SubSeq(result.ref_tokens, op.i1 + 1, op.i2))
                    hypText == Join(SubSeq(result.hyp_tokens, op.j1 + 1, op.j2))
                IN  /\ m.type = op.tag
                    /\ op.tag = "insert"  => m.ref = EXTRA /\ m.hyp = hypText
                    /\ op.tag = "delete"  => m.ref = refText /\ m.hyp = MISSING
                    /\ op.tag = "replace" => /\ m.ref = refText /\ m.hyp = hypText
                                             /\ refText # <<>> /\ hypText # <<>>

C6_Witness ==
    /\ Scored
    /\ Len(result.mismatches) >= 2
    /\ \E n \in DOMAIN result.mismatches :
          result.mismatches[n].type = "replace" /\ Len(result.mismatches[n].ref) > 1
    /\ \E n \in DOMAIN result.mismatches : result.mismatches[n].type = "delete"

\* C7 as stated: the reference tokens in equal spans are as many as a longest
\* common subsequence of the two token sequences has.
C7_MatchedIsLongestCommonSubsequence ==
    (Scored /\ result.ref_tokens # <<>>) =>
        EqualCovered(Ops) = LCSLength(result.ref_tokens, result.hyp_tokens)

\* C7 amended: the reference tokens in equal spans are never more than a longest
\* common subsequence has and, for a hypothesis of fewer than 200 tokens, never
\* fewer than the longest common contiguous run has.
C7_MatchedBetweenRunAndSubsequence ==
    (Scored /\ result.ref_tokens # <<>>) =>
        /\ EqualCovered(Ops) <= LCSLength(result.ref_tokens, result.hyp_tokens)
        /\ Len(result.hyp_tokens) < 200 =>
              EqualCovered(Ops) >= LongestCommonRun(result.ref_tokens, result.hyp_tokens)

C7_Witness ==
    /\ Scored
    /\ EqualCovered(Ops) >= 1
    /\ EqualCovered(Ops) < LCSLength(result.ref_tokens, result.hyp_tokens)

----------------------------------------------------------------------------
(* Properties of the tokenizer runs *)

\* The substitution of step 2 read without word boundaries: every maximal digit
\* run, with one interior "." or "," followed by digits, becomes the placeholder.
RECURSIVE DigitRunEnd(_, _)
DigitRunEnd(s, p) ==
    IF p < Len(s) /\ s[p + 1] \in Digits THEN DigitRunEnd(s, p + 1) ELSE p

RECURSIVE SubEveryDigitRunFrom(_, _)
SubEveryDigitRunFrom(s, p) ==
    IF p >= Len(s) THEN <<>>
    ELSE IF s[p + 1] \in Digits
         THEN LET q == DigitRunEnd(s, p)
                  r == IF q < Len(s) /\ s[q + 1] \in Separators
                       THEN DigitRunEnd(s, q + 1) ELSE q
              IN  NumToken \o SubEveryDigitRunFrom(s, IF r > q + 1 THEN r ELSE q)
    ELSE <<s[p + 1]>> \o SubEveryDigitRunFrom(s, p + 1)

\* C8: every maximal digit run of the input becomes one placeholder token at its
\* place in the output, whatever characters surround it.
C8_EveryDigitRunIsOnePlaceholder ==
    tpc # "input" =>
        tokens = Split(Join(MapNumWords(FindAll(SubEveryDigitRunFrom(Lower(text), 0)))))

\* C9: tokenizing the tokens joined by single blanks returns the same tokens.
C9_TokenizeIsFixedPoint ==
    tpc = "retokenized" => retokens = tokens

C9_Witness ==
    /\ tpc = "retokenized"
    /\ Len(tokens) >= 3
    /\ NumToken \in Range(tokens)
    /\ Text(<<"'">>) \in Range(tokens)
    /\ retokens = tokens

----------------------------------------------------------------------------
(* Properties of the session *)

LifecycleState ==
    /\ ref_key = audio_key
    /\ last # None => checked

\* A check whose run stops with an error stores nothing and leaves the keys alone
FailedCheckStep ==
    (\/ /\ Running /\ score_btn /\ new_session # ONE
        /\ Strip(ref_widget) = <<>> \/ audio_widget = None
     \/ run = "transcribing" /\ outcome' = "error_stt")
    => UNCHANGED <<last, ref_key, audio_key>>

\* A stored result appears only by a check that read a non-blank text and a
\* recording and whose transcription has returned
StoreStep ==
    (last' # None /\ last' # last)
    => /\ run = "transcribing"
       /\ locals # None
       /\ Strip(locals[1].ref_text) # <<>>
       /\ locals[1].audio_bytes = Recording[1]
       /\ outcome' = "ok"
       /\ checked'

\* A run that finds new_session=1 resets once and clears the parameter; until it
\* has done so nothing of the session changes
NewSessionStep ==
    (Running /\ new_session = ONE)
    => \/ /\ last' = None
          /\ ref_key' = ref_key + 1
          /\ audio_key' = audio_key + 1
          /\ new_session' = None
          /\ run' = "rerun"
       \/ UNCHANGED <<last, ref_key, audio_key, new_session, run>>

\* The rerun after a reset resets nothing
RerunStep ==
    run = "rerun" =>
        /\ UNCHANGED <<last, ref_key, audio_key>>
        /\ run' \in {"rerun", "idle"}
        /\ run' = "rerun" => UNCHANGED new_session

\* C10: last is set only while a check has succeeded since the last reset; a
\* failed check changes neither last nor the keys; a run with new_session=1
\* clears last, adds one to both keys (which stay equal) and clears the
\* parameter, and the rerun it asks for resets nothing.
C10_StoredResultLifecycle ==
    /\ []LifecycleState
    /\ [][FailedCheckStep /\ StoreStep /\ NewSessionStep /\ RerunStep]_vars

\* Two resets, then a result stored by a check during whose transcription the
\* user went on editing, then a check whose transcription failed
C10_Witness ==
    /\ ref_key = 2
    /\ audio_key = 2
    /\ last # None
    /\ last[1].ref_tokens # tokenize(ref_widget)
    /\ outcome = "error_stt"
    /\ run = "idle"

====
